---- MODULE Spec2Model ----
(***************************************************************************)
(* Model of Runner.vis in camera_pose_visualizer.py: one pass over the     *)
(* camera poses that draws an axis triad, an optional image frustum and a  *)
(* text label per camera, then the world axes and the axis limits.         *)
(*                                                                         *)
(* Lengths are fixed-point numbers counted in tenths of a world unit, and  *)
(* every coordinate the model enumerates is a multiple of 10 tenths, so    *)
(* the products by 0.8, 0.9 and 1.1 are exact integers.  Probabilities and *)
(* random samples are counted in tenths as well (10 is 1.0).               *)
(***************************************************************************)
EXTENDS Integers, Sequences, FiniteSets, TLC

MaxN == 3

\* ------------------------------------------------------------------------
\* Vectors and small helpers
\* ------------------------------------------------------------------------
VAdd(a, b) == [k \in 1..3 |-> a[k] + b[k]]

VScale(s, v) == [k \in 1..3 |-> s * v[k]]

Min2(a, b) == IF a <= b THEN a ELSE b

Max2(a, b) == IF a >= b THEN a ELSE b

SetMin(S) == CHOOSE x \in S : \A y \in S : x <= y

SetMax(S) == CHOOSE x \in S : \A y \in S : x >= y

Range(s) == {s[k] : k \in 1..Len(s)}

\* torch.min(a, b) / torch.max(a, b): element-wise on two 3-vectors
TorchMin(a, b) == [k \in 1..3 |-> Min2(a[k], b[k])]

TorchMaxWrong(a, b) == [k \in 1..3 |-> Min2(a[k], b[k])]

TorchMax(a, b) == [k \in 1..3 |-> Max2(a[k], b[k])]

\* column k of a 3x3 matrix stored as a tuple of rows: R[:, k]
Column(R, k) == [r \in 1..3 |-> R[r][k]]

\* str(i) for a non-negative integer
Digit(d) == CASE d = 0 -> "0" [] d = 1 -> "1" [] d = 2 -> "2" [] d = 3 -> "3"
              [] d = 4 -> "4" [] d = 5 -> "5" [] d = 6 -> "6" [] d = 7 -> "7"
              [] d = 8 -> "8" [] d = 9 -> "9"

RECURSIVE Str(_)
Str(n) == IF n < 10 THEN Digit(n) ELSE Str(n \div 10) \o Digit(n % 10)

\* ------------------------------------------------------------------------
\* Inputs: camera poses, configuration, external collaborators
\* ------------------------------------------------------------------------
Identity == <<<<1, 0, 0>>, <<0, 1, 0>>, <<0, 0, 1>>>>

RotZ90 == <<<<0, -1, 0>>, <<1, 0, 0>>, <<0, 0, 1>>>>

RotX90 == <<<<1, 0, 0>>, <<0, 0, -1>>, <<0, 1, 0>>>>

\* camera-to-world transforms: position camera_pose[:3, 3] and rotation camera_pose[:3, :3]
Poses ==
    { [pos |-> <<0, 0, 0>>, rot |-> Identity],
      [pos |-> <<10, 0, 0>>, rot |-> Identity],
      [pos |-> <<20, 0, 0>>, rot |-> Identity],
      [pos |-> <<10, 20, 10>>, rot |-> RotZ90],
      [pos |-> <<-10, -20, -10>>, rot |-> RotX90] }

\* camera sets of up to MaxN cameras, no two cameras sharing a pose
CameraSets ==
    UNION { {ps \in [1..n -> Poses] : \A a, b \in 1..n : a # b => ps[a] # ps[b]} : n \in 0..MaxN }

\* Optional[Tuple[int, ...]]: None is the empty tuple, a value is a 1-tuple holding the set
None == <<>>

Some(S) == <<S>>

Configs ==
    [ skip_probability : {0, 9, 10},
      image_plane : {10, 20},
      selected_frames : {None, Some({0}), Some({2, 5})},
      show_image : BOOLEAN ]

\* np.random.rand() returns a value in [0, 1)
Samples == {0, 9}

\* directions of the four corner rays origins[[0,-1,0,-1],[0,0,-1,-1]] as
\* returned by cameras.generate_rays; the ray origins are the camera position
CornerDirections ==
    { << <<-1, -1, 1>>, <<1, -1, 1>>, <<-1, 1, 1>>, <<1, 1, 1>> >>,
      << <<-1, -1, -1>>, <<1, -1, -1>>, <<-1, 1, -1>>, <<1, 1, -1>> >> }

VARIABLES camera_poses, config, pc, i, sample, visited, skipped,
          min_pos, max_pos, plots, surfaces, texts, opened,
          xlim, ylim, zlim, log, shown, error

vars == <<camera_poses, config, pc, i, sample, visited, skipped,
          min_pos, max_pos, plots, surfaces, texts, opened,
          xlim, ylim, zlim, log, shown, error>>

N == Len(camera_poses)

Positions == {camera_poses[k].pos : k \in 1..N}

Init ==
    /\ camera_poses \in CameraSets
    /\ config \in Configs
    /\ pc = "bounds"
    /\ i = 0
    /\ sample = 0
    /\ visited = <<>>
    /\ skipped = <<>>
    /\ min_pos = <<>>
    /\ max_pos = <<>>
    /\ plots = <<>>
    /\ surfaces = <<>>
    /\ texts = <<>>
    /\ opened = <<>>
    /\ xlim = <<>>
    /\ ylim = <<>>
    /\ zlim = <<>>
    /\ log = <<>>
    /\ shown = FALSE
    /\ error = "none"

\* ------------------------------------------------------------------------
\* Lines 47-48: bounds seeded from all camera positions
\* ------------------------------------------------------------------------
\* torch.min(camera_poses[:, :3, 3], dim=0).values
SeedMin(ps) == [k \in 1..3 |-> SetMin({ps[c].pos[k] : c \in 1..Len(ps)})]

\* torch.max(camera_poses[:, :3, 3], dim=0).values
SeedMax(ps) == [k \in 1..3 |-> SetMax({ps[c].pos[k] : c \in 1..Len(ps)})]

\* the reduction over dim 0 raises on a tensor with no rows
SeedEmpty ==
    /\ pc = "bounds"
    /\ N = 0
    /\ pc' = "failed"
    /\ error' = "empty"
    /\ UNCHANGED <<camera_poses, config, i, sample, visited, skipped, min_pos,
                   max_pos, plots, surfaces, texts, opened, xlim, ylim, zlim,
                   log, shown>>

Seed ==
    /\ pc = "bounds"
    /\ N > 0
    /\ min_pos' = SeedMin(camera_poses)
    /\ max_pos' = SeedMax(camera_poses)
    /\ pc' = "loop"
    /\ UNCHANGED <<camera_poses, config, i, sample, visited, skipped, plots,
                   surfaces, texts, opened, xlim, ylim, zlim, log, shown, error>>

\* ------------------------------------------------------------------------
\* Lines 56-140: one loop iteration per camera
\* ------------------------------------------------------------------------
SkipConditionRegrouped(idx, s) ==
    (s < config.skip_probability
       \/ (config.selected_frames # None /\ idx \notin config.selected_frames[1]))
    /\ config.show_image

SkipConditionNoSelection(idx, s) == s < config.skip_probability

SkipConditionNoProbability(idx, s) ==
    /\ (config.selected_frames # None /\ idx \notin config.selected_frames[1])
    /\ config.show_image

\* line 58: `a or b and c` groups as `a or (b and c)`
SkipCondition(idx, s) ==
    \/ s < config.skip_probability
    \/ /\ (config.selected_frames # None /\ idx \notin config.selected_frames[1])
       /\ config.show_image

AxisLengthUnscaled(image_plane) == image_plane

\* line 67: axis_length = 0.8 * image_plane
AxisLength(image_plane) == (8 * image_plane) \div 10

Line(color, p, q) ==
    [color |-> color, xs |-> <<p[1], q[1]>>, ys |-> <<p[2], q[2]>>, zs |-> <<p[3], q[3]>>]

\* lines 63-88: the three axis segments of one camera
Triad(pose) ==
    LET camera_position == pose.pos
        camera_orientation == pose.rot
        axis_length == AxisLength(config.image_plane)
        x_axis == VAdd(camera_position, VScale(axis_length, Column(camera_orientation, 1)))
        y_axis == VAdd(camera_position, VScale(axis_length, Column(camera_orientation, 2)))
        z_axis == VAdd(camera_position, VScale(axis_length, Column(camera_orientation, 3)))
    IN  << Line("r", camera_position, x_axis),
           Line("g", camera_position, y_axis),
           Line("b", camera_position, z_axis) >>

\* lines 111-114, 121: corners = ray origin + direction * image_plane
Corners(pose, dirs) ==
    [c \in 1..4 |-> VAdd(pose.pos, VScale(config.image_plane, dirs[c]))]

\* lines 122-128: gray boundary lines from the camera to each corner
Boundary(pose, corners) == [c \in 1..4 |-> Line("gray", pose.pos, corners[c])]

RECURSIVE FoldMax(_, _, _)
\* line 129 over the four corners
FoldMax(acc, corners, c) ==
    IF c > Len(corners) THEN acc ELSE FoldMax(TorchMax(acc, corners[c]), corners, c + 1)

RECURSIVE FoldMin(_, _, _)
\* line 130 over the four corners
FoldMin(acc, corners, c) ==
    IF c > Len(corners) THEN acc ELSE FoldMin(TorchMin(acc, corners[c]), corners, c + 1)

LabelIndexOnly(idx, pose) == [x |-> pose.pos[1], y |-> pose.pos[2], z |-> pose.pos[3], s |-> Str(idx + 1)]

\* lines 133-140: ax.text(x, y, z, str(i))
Label(idx, pose) == [x |-> pose.pos[1], y |-> pose.pos[2], z |-> pose.pos[3], s |-> Str(idx)]

SkipNoAppend ==
    /\ pc = "loop"
    /\ i < N
    /\ \E s \in Samples :
         /\ SkipCondition(i, s)
         /\ sample' = s
    /\ visited' = Append(visited, i)
    /\ i' = i + 1
    /\ UNCHANGED <<camera_poses, config, pc, skipped, min_pos, max_pos, plots, surfaces,
                   texts, opened, xlim, ylim, zlim, log, shown, error>>

\* lines 57-60: the camera is skipped
Skip ==
    /\ pc = "loop"
    /\ i < N
    /\ \E s \in Samples :
         /\ SkipCondition(i, s)
         /\ sample' = s
    /\ visited' = Append(visited, i)
    /\ skipped' = Append(skipped, i)
    /\ i' = i + 1
    /\ UNCHANGED <<camera_poses, config, pc, min_pos, max_pos, plots, surfaces,
                   texts, opened, xlim, ylim, zlim, log, shown, error>>

\* lines 57-88, 132-140 with show_image false: triad and label only
DrawAxes ==
    /\ pc = "loop"
    /\ i < N
    /\ ~config.show_image
    /\ \E s \in Samples :
         /\ ~SkipCondition(i, s)
         /\ sample' = s
    /\ visited' = Append(visited, i)
    /\ plots' = plots \o Triad(camera_poses[i + 1])
    /\ texts' = Append(texts, Label(i, camera_poses[i + 1]))
    /\ i' = i + 1
    /\ UNCHANGED <<camera_poses, config, pc, skipped, min_pos, max_pos, surfaces,
                   opened, xlim, ylim, zlim, log, shown, error>>

\* lines 57-140 with show_image true and the image loaded
DrawFrustum ==
    /\ pc = "loop"
    /\ i < N
    /\ config.show_image
    /\ \E s \in Samples :
         /\ ~SkipCondition(i, s)
         /\ sample' = s
    /\ visited' = Append(visited, i)
    /\ opened' = Append(opened, i)
    /\ \E dirs \in CornerDirections :
         LET pose == camera_poses[i + 1]
             corners == Corners(pose, dirs)
         IN  /\ plots' = plots \o Triad(pose) \o Boundary(pose, corners)
             /\ surfaces' = Append(surfaces, [camera |-> i, corners |-> corners])
             /\ max_pos' = FoldMax(max_pos, corners, 1)
             /\ min_pos' = FoldMin(min_pos, corners, 1)
             /\ texts' = Append(texts, Label(i, pose))
    /\ i' = i + 1
    /\ UNCHANGED <<camera_poses, config, pc, skipped, xlim, ylim, zlim, log,
                   shown, error>>

LoadFailSwallowed ==
    /\ pc = "loop"
    /\ i < N
    /\ config.show_image
    /\ \E s \in Samples :
         /\ ~SkipCondition(i, s)
         /\ sample' = s
    /\ visited' = Append(visited, i)
    /\ plots' = plots \o Triad(camera_poses[i + 1])
    /\ error' = "image"
    /\ i' = i + 1
    /\ UNCHANGED <<camera_poses, config, pc, skipped, min_pos, max_pos, surfaces,
                   texts, opened, xlim, ylim, zlim, log, shown>>

\* lines 57-91 with show_image true: Image.open raises after the triad is drawn
LoadFail ==
    /\ pc = "loop"
    /\ i < N
    /\ config.show_image
    /\ \E s \in Samples :
         /\ ~SkipCondition(i, s)
         /\ sample' = s
    /\ visited' = Append(visited, i)
    /\ plots' = plots \o Triad(camera_poses[i + 1])
    /\ error' = "image"
    /\ pc' = "failed"
    /\ UNCHANGED <<camera_poses, config, i, skipped, min_pos, max_pos, surfaces,
                   texts, opened, xlim, ylim, zlim, log, shown>>

\* ------------------------------------------------------------------------
\* Lines 142-163: scaled bounds, world axes, limits, log line, show
\* ------------------------------------------------------------------------
ScaleMaxSwapped(v) == (9 * SetMax(Range(v))) \div 10

\* line 142: max_pos.max() * 1.1
ScaleMax(v) == (11 * SetMax(Range(v))) \div 10

ScaleMinSwapped(v) == (11 * SetMin(Range(v))) \div 10

\* line 143: min_pos.min() * 0.9
ScaleMin(v) == (9 * SetMin(Range(v))) \div 10

\* lines 146-148
WorldAxes(m) ==
    << [color |-> "r", xs |-> <<0, m>>, ys |-> <<0, 0>>, zs |-> <<0, 0>>],
       [color |-> "g", xs |-> <<0, 0>>, ys |-> <<0, m>>, zs |-> <<0, 0>>],
       [color |-> "b", xs |-> <<0, 0>>, ys |-> <<0, 0>>, zs |-> <<0, m>>] >>

\* lines 142-158, taken when the iteration is exhausted
Limits ==
    /\ pc = "loop"
    /\ i = N
    /\ max_pos' = ScaleMax(max_pos)
    /\ min_pos' = ScaleMin(min_pos)
    /\ plots' = plots \o WorldAxes(max_pos')
    /\ xlim' = <<min_pos', max_pos'>>
    /\ ylim' = <<min_pos', max_pos'>>
    /\ zlim' = <<min_pos', max_pos'>>
    /\ pc' = "log"
    /\ UNCHANGED <<camera_poses, config, i, sample, visited, skipped, surfaces,
                   texts, opened, log, shown, error>>

\* line 160: CONSOLE.log(f"skipped {len(skipped)} images.")
LogSkipped ==
    /\ pc = "log"
    /\ log' = Append(log, Len(skipped))
    /\ pc' = "show"
    /\ UNCHANGED <<camera_poses, config, i, sample, visited, skipped, min_pos,
                   max_pos, plots, surfaces, texts, opened, xlim, ylim, zlim,
                   shown, error>>

\* line 163: plt.show()
Show ==
    /\ pc = "show"
    /\ shown' = TRUE
    /\ pc' = "done"
    /\ UNCHANGED <<camera_poses, config, i, sample, visited, skipped, min_pos,
                   max_pos, plots, surfaces, texts, opened, xlim, ylim, zlim,
                   log, error>>

Next ==
    \/ SeedEmpty
    \/ Seed
    \/ Skip
    \/ DrawAxes
    \/ DrawFrustum
    \/ LoadFail
    \/ Limits
    \/ LogSkipped
    \/ Show

Spec == Init /\ [][Next]_vars

\* ------------------------------------------------------------------------
\* Properties
\* ------------------------------------------------------------------------
Finished == pc \in {"log", "show", "done"}

\* a loop iteration: the step that visits one more index
Iteration == pc = "loop" /\ visited' # visited

SkippedSet == Range(skipped)

FrustumCameras == {surfaces[k].camera : k \in 1..Len(surfaces)}

LabelTexts == {texts[k].s : k \in 1..Len(texts)}

GrayLines == {k \in 1..Len(plots) : plots[k].color = "gray"}

\* every coordinate of every camera position and of every drawn frustum corner
Coordinates ==
    UNION {Range(p) : p \in Positions}
      \cup UNION {Range(surfaces[k].corners[c]) : k \in 1..Len(surfaces), c \in 1..4}

\* component-wise hull of the camera positions, stated without SeedMin/SeedMax
IsLowerHull(v) ==
    \A k \in 1..3 : /\ \A p \in Positions : v[k] <= p[k]
                    /\ \E p \in Positions : v[k] = p[k]

IsUpperHull(v) ==
    \A k \in 1..3 : /\ \A p \in Positions : v[k] >= p[k]
                    /\ \E p \in Positions : v[k] = p[k]

C2_SelectedOnly ==
    (config.show_image /\ config.selected_frames # None) =>
        LET S == config.selected_frames[1]
        IN  /\ \A idx \in Range(visited) : idx \notin S => idx \in SkippedSet
            /\ FrustumCameras \subseteq S
            /\ (config.skip_probability = 0 /\ error = "none") =>
                   FrustumCameras = S \cap (0..(i - 1))
            /\ (config.skip_probability = 0 /\ pc = "done") =>
                   FrustumCameras = S \cap (0..(N - 1))

C2_Witness ==
    /\ pc = "done"
    /\ config.show_image
    /\ config.selected_frames = Some({2, 5})
    /\ config.skip_probability = 0
    /\ N = 3
    /\ FrustumCameras = {2}
    /\ skipped = <<0, 1>>

\* C3: with skip_probability = 1.0 and selected_frames = None every visited
\* camera is skipped: no triad, frustum or label is drawn for any camera,
\* and the logged skipped count is N.
C3_AllSkipped ==
    (config.skip_probability = 10 /\ config.selected_frames = None) =>
        /\ skipped = visited
        /\ texts = <<>>
        /\ surfaces = <<>>
        /\ opened = <<>>
        /\ plots = IF Finished THEN WorldAxes(max_pos) ELSE <<>>
        /\ error # "image"
        /\ Finished => Len(skipped) = N
        /\ log # <<>> => log = <<N>>

C3_Witness ==
    /\ pc = "done"
    /\ config.skip_probability = 10
    /\ config.selected_frames = None
    /\ N = 3
    /\ log = <<3>>

\* C4: the loop visits the indices 0..N-1 once each in increasing order
\* whatever is skipped, and every index whose iteration completed is either
\* in the skipped list or has its label drawn, never both and never neither.
C4_VisitOrder ==
    /\ Len(visited) <= N
    /\ \A k \in 1..Len(visited) : visited[k] = k - 1
    /\ (Finished \/ (pc = "loop" /\ i = N)) => Len(visited) = N
    /\ error = "none" => Len(visited) = i
    /\ \A idx \in 0..(i - 1) :
         /\ idx \in Range(visited)
         /\ Cardinality({k \in 1..Len(skipped) : skipped[k] = idx})
              + Cardinality({k \in 1..Len(texts) : texts[k].s = Str(idx)}) = 1
    /\ Len(skipped) + Len(texts) = i

C4_Witness ==
    /\ pc = "done"
    /\ N = 3
    /\ visited = <<0, 1, 2>>
    /\ skipped = <<1>>
    /\ LabelTexts = {"0", "2"}

\* C5: with show_image false and skip_probability 0 the pass draws one
\* red/green/blue triad per camera in index order, one label per camera
\* with texts "0".."N-1" at the camera positions, loads no image, draws no
\* surface or boundary line, takes the bounds from the positions only and
\* logs 0 skipped cameras.
C5_AxesOnly ==
    (~config.show_image /\ config.skip_probability = 0) =>
        /\ skipped = <<>>
        /\ opened = <<>>
        /\ surfaces = <<>>
        /\ GrayLines = {}
        /\ error # "image"
        /\ Len(texts) = i
        /\ \A k \in 1..Len(texts) :
             /\ texts[k].s = <<"0", "1", "2", "3", "4", "5", "6", "7", "8", "9">>[k]
             /\ <<texts[k].x, texts[k].y, texts[k].z>> = camera_poses[k].pos
        /\ Len(plots) = 3 * i + (IF Finished THEN 3 ELSE 0)
        /\ \A k \in 1..i :
             /\ <<plots[3 * k - 2].color, plots[3 * k - 1].color, plots[3 * k].color>>
                  = <<"r", "g", "b">>
             /\ \A j \in (3 * k - 2)..(3 * k) :
                  <<plots[j].xs[1], plots[j].ys[1], plots[j].zs[1]>> = camera_poses[k].pos
        /\ pc = "loop" => IsLowerHull(min_pos) /\ IsUpperHull(max_pos)
        /\ Finished =>
             /\ i = N
             /\ 10 * xlim[1] = 9 * SetMin(UNION {Range(p) : p \in Positions})
             /\ 10 * xlim[2] = 11 * SetMax(UNION {Range(p) : p \in Positions})
        /\ log # <<>> => log = <<0>>

C5_Witness ==
    /\ pc = "done"
    /\ ~config.show_image
    /\ config.skip_probability = 0
    /\ config.image_plane = 10
    /\ camera_poses = << [pos |-> <<0, 0, 0>>, rot |-> Identity],
                         [pos |-> <<10, 0, 0>>, rot |-> Identity],
                         [pos |-> <<20, 0, 0>>, rot |-> Identity] >>
    /\ Len(plots) = 12
    /\ LabelTexts = {"0", "1", "2"}
    /\ log = <<0>>

\* C6: after the loop, with m and M the scalar minimum and maximum over the
\* components of the accumulated bounds, the x, y and z limits are all
\* [0.9*m, 1.1*M] and the three world-axis lines run from the origin to
\* 1.1*M along X, Y and Z.
C6_CubicLimits ==
    [][ (pc = "loop" /\ pc' = "log") =>
          LET m == SetMin(Range(min_pos))
              M == SetMax(Range(max_pos))
              lo == xlim'[1]
              hi == xlim'[2]
              n == Len(plots')
          IN  /\ 10 * lo = 9 * m
              /\ 10 * hi = 11 * M
              /\ ylim' = xlim'
              /\ zlim' = xlim'
              /\ n = Len(plots) + 3
              /\ plots'[n - 2] = Line("r", <<0, 0, 0>>, <<hi, 0, 0>>)
              /\ plots'[n - 1] = Line("g", <<0, 0, 0>>, <<0, hi, 0>>)
              /\ plots'[n] = Line("b", <<0, 0, 0>>, <<0, 0, hi>>) ]_vars

C6_Witness ==
    /\ pc = "done"
    /\ surfaces # <<>>
    /\ xlim = <<-27, 33>>
    /\ ylim = <<-27, 33>>
    /\ zlim = <<-27, 33>>

\* C7: for every non-skipped camera with position p and rotation R the
\* three axis segments start at p and end at p + 0.8*image_plane*R[:,k]
\* (red, green, blue for k = 0, 1, 2); with identity rotation and
\* image_plane = 1.0 the endpoints are p + (0.8,0,0), (0,0.8,0), (0,0,0.8).
C7_AxisEndpoints ==
    [][ (Iteration /\ skipped' = skipped) =>
          LET p == camera_poses[i + 1].pos
              R == camera_poses[i + 1].rot
              n == Len(plots)
              seg(k) == plots'[n + k]
              start(k) == <<seg(k).xs[1], seg(k).ys[1], seg(k).zs[1]>>
              end(k) == <<seg(k).xs[2], seg(k).ys[2], seg(k).zs[2]>>
          IN  /\ Len(plots') >= n + 3
              /\ <<seg(1).color, seg(2).color, seg(3).color>> = <<"r", "g", "b">>
              /\ \A k \in 1..3 :
                   /\ start(k) = p
                   /\ \A r \in 1..3 :
                        10 * (end(k)[r] - p[r]) = 8 * config.image_plane * R[r][k]
              /\ (R = Identity /\ config.image_plane = 10) =>
                   /\ end(1) = VAdd(p, <<8, 0, 0>>)
                   /\ end(2) = VAdd(p, <<0, 8, 0>>)
                   /\ end(3) = VAdd(p, <<0, 0, 8>>) ]_vars

C7_Witness ==
    /\ pc = "loop"
    /\ i = 2
    /\ skipped = <<>>
    /\ config.image_plane = 20
    /\ camera_poses[2] = [pos |-> <<10, 20, 10>>, rot |-> RotZ90]
    /\ \E k \in 1..Len(plots) : plots[k] = Line("r", <<10, 20, 10>>, <<10, 36, 10>>)

\* C8: no failure is handled: an empty camera set, or a failing image load
\* for a visited non-skipped camera with show_image true, ends the run at
\* that point (no later camera visited, no skipped-count line, no figure);
\* without failure the skipped-count line is logged exactly once, after the
\* last camera and before the figure is presented.
C8_FailureAborts ==
    /\ error = "none" <=> pc # "failed"
    /\ error = "empty" <=> (N = 0 /\ pc # "bounds")
    /\ error # "none" =>
         /\ ~ENABLED Next
         /\ log = <<>>
         /\ ~shown
         /\ xlim = <<>>
    /\ error = "image" =>
         /\ config.show_image
         /\ i < N
         /\ visited = [k \in 1..(i + 1) |-> k - 1]
         /\ i \notin SkippedSet
         /\ i \notin FrustumCameras
         /\ Str(i) \notin LabelTexts
    /\ Len(log) <= 1
    /\ log # <<>> => (Len(visited) = N /\ pc \in {"show", "done"})
    /\ shown <=> pc = "done"
    /\ shown => Len(log) = 1
    /\ pc = "show" => Len(log) = 1

C8_Witness ==
    /\ error = "image"
    /\ i = 1
    /\ N = 3
    /\ surfaces # <<>>

\* C9: the bounds are seeded once, before the loop, from the positions of
\* all cameras; in the loop they change only when a non-skipped camera is
\* processed with show_image true, and then only widen, to include that
\* camera's four frustum corners; with show_image false they stay at the
\* seed whatever is skipped.
C9_BoundsWiden ==
    [][ /\ (pc = "bounds" /\ pc' = "loop") =>
             IsLowerHull(min_pos') /\ IsUpperHull(max_pos')
        /\ (pc = "loop" /\ pc' # "log") =>
             /\ \A k \in 1..3 : min_pos'[k] <= min_pos[k] /\ max_pos'[k] >= max_pos[k]
             /\ (min_pos' # min_pos \/ max_pos' # max_pos) =>
                  /\ config.show_image
                  /\ skipped' = skipped
                  /\ Len(surfaces') = Len(surfaces) + 1
             /\ Len(surfaces') = Len(surfaces) + 1 =>
                  LET corners == surfaces'[Len(surfaces')].corners
                  IN  \A k \in 1..3 :
                        /\ min_pos'[k] = SetMin({min_pos[k]} \cup {corners[c][k] : c \in 1..4})
                        /\ max_pos'[k] = SetMax({max_pos[k]} \cup {corners[c][k] : c \in 1..4})
             /\ ~config.show_image => IsLowerHull(min_pos') /\ IsUpperHull(max_pos') ]_vars

C9_Witness ==
    /\ pc = "loop"
    /\ i = N
    /\ N = 3
    /\ config.show_image
    /\ skipped = <<1>>
    /\ Len(surfaces) = 2
    /\ ~IsLowerHull(min_pos)
    /\ ~IsUpperHull(max_pos)

\* C10 as stated: after a successful pass the cubic limit interval [lo, hi]
\* contains every component of every camera position and of every drawn
\* frustum corner, negative coordinates included.
C10_LimitsContainAll ==
    Finished => \A c \in Coordinates : xlim[1] <= c /\ c <= xlim[2]

\* C10 amended: after a successful pass lo <= c for every such coordinate c
\* when the smallest coordinate is not negative, and c <= hi for every such
\* coordinate when the largest coordinate is not negative.
C10_LimitsContainNonNegative ==
    Finished =>
        /\ ylim = xlim
        /\ zlim = xlim
        /\ SetMin(Coordinates) >= 0 => \A c \in Coordinates : xlim[1] <= c
        /\ SetMax(Coordinates) >= 0 => \A c \in Coordinates : c <= xlim[2]

C10_Witness ==
    /\ pc = "done"
    /\ SetMin(Coordinates) > 0
    /\ xlim[1] < SetMin(Coordinates)
    /\ xlim[2] > SetMax(Coordinates)

====
